---- MODULE Spec2Model ----
(***************************************************************************)
(* A model of the EV charging-point extraction pipeline:                   *)
(*   - safe_get, the rate-limited GET of Cloud_Functions_Option_02;        *)
(*   - the four anchor sweeps (run_extraction, ocm_extractor,              *)
(*     fetch_central_london_verified, the OCM script loop);                *)
(*   - reconciliation (fetch_ocm_details) and the cleaning step            *)
(*     (clean_ev_charger_data, extract_connections);                       *)
(*   - the classifier (assign_charging_type, max_charging_type);           *)
(*   - the incremental warehouse load (load_to_bigquery_incremental);      *)
(*   - the sub-box loop, is_charger_place on one candidate, one call of    *)
(*     fetch_ocm_details, one call of fetch_nearby, and one invocation of  *)
(*     a cloud function as a whole.                                        *)
(*                                                                         *)
(* Powers are integers in hundredths of a kW (kW(7) is 7 kW), so that      *)
(* 6.99, 7, 22, 22.01 and the rounding of the "%.1f kW" rendering exist.   *)
(* Each part has its own specification over the shared variables; the      *)
(* variables of the other parts stay at their idle values.                 *)
(***************************************************************************)
EXTENDS Integers, Sequences, FiniteSets, TLC

VARIABLES
    \* safe_get (one call)
    sg_pc, retry, sg_result, sg_waits,
    \* the anchor sweep
    sw_variant, sw_pc, sw_anchor, sw_retry, sw_page, sw_all, sw_pending,
    sw_seen, sw_records, sw_visited, sw_failed, sw_fetched,
    \* the classifier
    cf_pc, cf_powers, cf_types, cf_site,
    \* reconciliation and cleaning of a batch
    cl_variant, cl_pc, cl_key, cl_input, cl_raw, cl_pre, cl_post, cl_out,
    \* the incremental load
    sy_variant, sy_pc, table, sy_batch, table_exists, existing_ids, df_new,
    sy_result, sy_runs, sy_table0, sy_prev, sy_appended, sy_queries, sy_jobs,
    \* the sub-box loop
    tl_pc, tl_box, lat, lng, tl_boxes,
    \* the charger test on one candidate
    ch_pc, ch_details, ch_result, ch_records,
    \* one call of fetch_ocm_details
    oc_pc, oc_variant, oc_key, oc_exchange, oc_data, oc_requests, oc_result,
    \* one invocation of the cloud function
    rn_variant, rn_pc, rn_google_key, rn_ocm_key, rn_fetches, rn_records, rn_writes, rn_status,
    \* one call of fetch_nearby
    nb_variant, nb_pc, pagetoken, all_results, nb_requests, nb_responses

sgVars == <<sg_pc, retry, sg_result, sg_waits>>
swVars == <<sw_variant, sw_pc, sw_anchor, sw_retry, sw_page, sw_all,
            sw_pending, sw_seen, sw_records, sw_visited, sw_failed,
            sw_fetched>>
cfVars == <<cf_pc, cf_powers, cf_types, cf_site>>
clVars == <<cl_variant, cl_pc, cl_key, cl_input, cl_raw, cl_pre, cl_post,
            cl_out>>
syVars == <<sy_variant, sy_pc, table, sy_batch, table_exists, existing_ids,
            df_new, sy_result, sy_runs, sy_table0, sy_prev, sy_appended,
            sy_queries, sy_jobs>>
tlVars == <<tl_pc, tl_box, lat, lng, tl_boxes>>
chVars == <<ch_pc, ch_details, ch_result, ch_records>>
ocVars == <<oc_pc, oc_variant, oc_key, oc_exchange, oc_data, oc_requests, oc_result>>
rnVars == <<rn_variant, rn_pc, rn_google_key, rn_ocm_key, rn_fetches, rn_records, rn_writes, rn_status>>
nbVars == <<nb_variant, nb_pc, pagetoken, all_results, nb_requests, nb_responses>>
\* The parts modelled after the first five.
xVars == <<tlVars, chVars, ocVars, rnVars, nbVars>>
baseVars == <<sgVars, swVars, cfVars, clVars, syVars>>
\* What the actions of each later part leave alone.
tlOthers == <<baseVars, chVars, ocVars, rnVars, nbVars>>
chOthers == <<baseVars, tlVars, ocVars, rnVars, nbVars>>
ocOthers == <<baseVars, tlVars, chVars, rnVars, nbVars>>
rnOthers == <<baseVars, tlVars, chVars, ocVars, nbVars>>
nbOthers == <<baseVars, tlVars, chVars, ocVars, rnVars>>
vars == <<sgVars, swVars, cfVars, clVars, syVars, xVars>>

\* The idle values of each part, for the specifications that do not run it.
sgIdle == sg_pc = "idle" /\ retry = 0 /\ sg_result = <<>> /\ sg_waits = <<>>
swIdle ==
    /\ sw_variant = "none" /\ sw_pc = "idle" /\ sw_anchor = 0 /\ sw_retry = 0
    /\ sw_page = 0 /\ sw_all = <<>> /\ sw_pending = <<>> /\ sw_seen = {}
    /\ sw_records = <<>> /\ sw_visited = {} /\ sw_failed = {}
    /\ sw_fetched = <<>>
cfIdle == cf_pc = "idle" /\ cf_powers = <<>> /\ cf_types = <<>> /\ cf_site = "none"
clIdle ==
    /\ cl_variant = "none" /\ cl_pc = "idle" /\ cl_key = TRUE
    /\ cl_input = <<>> /\ cl_raw = <<>> /\ cl_pre = <<>> /\ cl_post = <<>>
    /\ cl_out = <<>>
\* The destination before any table was created.
Absent == [exists |-> FALSE, rows |-> <<>>]

syIdle ==
    /\ sy_variant = "none" /\ sy_pc = "idle" /\ table = Absent
    /\ sy_batch = <<>> /\ table_exists = FALSE /\ existing_ids = {}
    /\ df_new = <<>> /\ sy_result = "none" /\ sy_runs = 0
    /\ sy_table0 = Absent /\ sy_prev = <<>> /\ sy_appended = <<>>
    /\ sy_queries = 0 /\ sy_jobs = 0

tlIdle ==
    /\ tl_pc = "idle" /\ lat = 0 /\ lng = 0 /\ tl_boxes = <<>>
    /\ tl_box = [MIN_LAT |-> 0, MAX_LAT |-> 0, MIN_LNG |-> 0, MAX_LNG |-> 0,
                 STEP |-> 0]

chIdle ==
    /\ ch_pc = "idle"
    /\ ch_result = [opt01 |-> FALSE, gpa |-> FALSE]
    /\ ch_records = [opt01 |-> <<>>, gpa |-> <<>>]
    /\ ch_details = [types |-> {}, name |-> <<>>, formatted_address |-> <<>>]

ocIdle ==
    /\ oc_pc = "idle" /\ oc_variant = "none" /\ oc_key = TRUE
    /\ oc_exchange = [net |-> "error", status |-> 0, retry_after |-> "absent",
                      body |-> "none"]
    /\ oc_data = [kind |-> "empty", conns |-> <<>>]
    /\ oc_requests = 0 /\ oc_result = <<>>

rnIdle ==
    /\ rn_variant = "none" /\ rn_pc = "idle" /\ rn_google_key = TRUE
    /\ rn_ocm_key = TRUE /\ rn_fetches = 0 /\ rn_records = 0
    /\ rn_writes = <<>> /\ rn_status = 0

nbIdle ==
    /\ nb_variant = "none" /\ nb_pc = "idle" /\ pagetoken = <<>>
    /\ all_results = <<>> /\ nb_requests = <<>> /\ nb_responses = <<>>

xIdle == tlIdle /\ chIdle /\ ocIdle /\ rnIdle /\ nbIdle

baseIdle == sgIdle /\ swIdle /\ cfIdle /\ clIdle /\ syIdle

\* The idle values of every part but one of the later ones.
tlOthersIdle == baseIdle /\ chIdle /\ ocIdle /\ rnIdle /\ nbIdle
chOthersIdle == baseIdle /\ tlIdle /\ ocIdle /\ rnIdle /\ nbIdle
ocOthersIdle == baseIdle /\ tlIdle /\ chIdle /\ rnIdle /\ nbIdle
rnOthersIdle == baseIdle /\ tlIdle /\ chIdle /\ ocIdle /\ nbIdle
nbOthersIdle == baseIdle /\ tlIdle /\ chIdle /\ ocIdle /\ rnIdle

RECURSIVE Pow2(_)
\* 2 ** n
Pow2(n) == IF n = 0 THEN 1 ELSE 2 * Pow2(n - 1)

(***************************************************************************)
(* HTTP exchanges: what one requests.get can produce.                      *)
(***************************************************************************)
\* Retry-After of a 429: absent, a number of seconds, or an HTTP-date.
RetryAfterValues == {"absent", "3", "date"}

NetError == [net |-> "error", status |-> 0, retry_after |-> "absent", body |-> "none"]

Exchanges ==
    {NetError}
    \cup [net : {"ok"}, status : {200, 500}, retry_after : {"absent"},
          body : {"json", "garbage"}]
    \cup [net : {"ok"}, status : {429}, retry_after : RetryAfterValues,
          body : {"json", "garbage"}]

\* int(retry_after): whether int() accepts the value, and the seconds it gives.
IsInt(h) == h = "3"

ParseInt(h) == IF h = "3" THEN 3 ELSE 0

(***************************************************************************)
(* safe_get (Cloud_Functions_Option_02/main.py:28-52).                     *)
(***************************************************************************)
MaxRetries == 5

\* One pass of the loop body with the counter at r and the exchange x:
\* what the pass ends in ("return" the response, "retry", or "raise"), the
\* counter afterwards and the time slept.
SafeGetStep(r, x) ==
    IF x.net = "error"
    THEN \* requests.get raised a RequestException
         [kind |-> "retry", retry |-> r + 1, wait |-> Pow2(r), error |-> "none"]
    ELSE IF x.status = 429
    THEN IF x.retry_after # "absent"
         THEN IF ~IsInt(x.retry_after)
              THEN \* int() raises ValueError, which is no RequestException
                   [kind |-> "raise", retry |-> r, wait |-> 0,
                    error |-> "ValueError"]
              ELSE [kind |-> "retry", retry |-> r + 1,
                    wait |-> ParseInt(x.retry_after), error |-> "none"]
         ELSE [kind |-> "retry", retry |-> r + 1, wait |-> Pow2(r),
               error |-> "none"]
    ELSE IF x.status # 200
    THEN \* raise_for_status raised HTTPError, a RequestException
         [kind |-> "retry", retry |-> r + 1, wait |-> Pow2(r), error |-> "none"]
    ELSE [kind |-> "return", retry |-> r, wait |-> 0, error |-> "none"]

\* A call of safe_get begins: retry = 0.
SafeGetInit ==
    /\ sg_pc = "loop" /\ retry = 0 /\ sg_result = <<>> /\ sg_waits = <<>>

\* One iteration of `while retry < max_retries`.
SafeGetAttempt ==
    /\ sg_pc = "loop"
    /\ retry < MaxRetries
    /\ \E x \in Exchanges :
         LET s == SafeGetStep(retry, x) IN
         /\ retry' = s.retry
         /\ sg_waits' = IF s.kind = "retry" THEN Append(sg_waits, s.wait)
                        ELSE sg_waits
         /\ sg_pc' = CASE s.kind = "return" -> "returned"
                       [] s.kind = "raise" -> "raised"
                       [] OTHER -> "loop"
         /\ sg_result' = CASE s.kind = "return" -> <<"response", x.body>>
                           [] s.kind = "raise" -> <<s.error>>
                           [] OTHER -> sg_result
    /\ UNCHANGED <<swVars, cfVars, clVars, syVars, xVars>>

\* The loop condition fails: "Max retries exceeded", return None.
SafeGetGiveUp ==
    /\ sg_pc = "loop"
    /\ ~(retry < MaxRetries)
    /\ sg_pc' = "returned"
    /\ sg_result' = <<"None">>
    /\ UNCHANGED <<retry, sg_waits>>
    /\ UNCHANGED <<swVars, cfVars, clVars, syVars, xVars>>

NextRetry == SafeGetAttempt \/ SafeGetGiveUp

InitRetry == SafeGetInit /\ swIdle /\ cfIdle /\ clIdle /\ syIdle /\ xIdle

SpecRetry == InitRetry /\ [][NextRetry]_vars

\* C1: in every execution of safe_get the retry counter never exceeds 5, and
\* a call in which every attempt fails ends by returning None on the 6th
\* consecutive failure, never by raising an exception.
C1_SafeGetBoundedAndSkips ==
    /\ retry <= 5
    /\ sg_pc # "raised"
    /\ (sg_pc = "returned" /\ sg_result = <<"None">>) => Len(sg_waits) = 6

(***************************************************************************)
(* The classifier: assign_charging_type and max_charging_type.             *)
(***************************************************************************)
\* x kW in the model's unit, hundredths of a kW.
kW(x) == x * 100

\* np.nan, the value max_charging_type returns when no tier is present.
NaN == "nan"

\* Cloud_Functions_Option_01/main.py:47-56, with the mutant `p <= 7`.
assign_charging_type_slow_at_7(power_list) ==
    [i \in 1..Len(power_list) |->
        IF power_list[i] <= kW(7) THEN "Slow"
        ELSE IF kW(7) <= power_list[i] /\ power_list[i] <= kW(22) THEN "Fast"
        ELSE "Rapid"]

assign_charging_type(power_list) ==
    [i \in 1..Len(power_list) |->
        IF power_list[i] < kW(7) THEN "Slow"
        ELSE IF kW(7) <= power_list[i] /\ power_list[i] <= kW(22) THEN "Fast"
        ELSE "Rapid"]

\* Cloud_Functions_Option_02/main.py:103-112
assign_charging_type_opt02(power_kw) ==
    [i \in 1..Len(power_kw) |->
        IF power_kw[i] < kW(7) THEN "Slow"
        ELSE IF kW(7) <= power_kw[i] /\ power_kw[i] <= kW(22) THEN "Fast"
        ELSE "Rapid"]

\* data_cleaning_OCM_GPA.py:5-14
assign_charging_type_gpa(power) ==
    [i \in 1..Len(power) |->
        IF power[i] < kW(7) THEN "Slow"
        ELSE IF kW(7) <= power[i] /\ power[i] <= kW(22) THEN "Fast"
        ELSE "Rapid"]

\* data_extracting_cleaning_OCM.py:89-98
assign_charging_type_ocm(power_kw) ==
    [i \in 1..Len(power_kw) |->
        IF power_kw[i] < kW(7) THEN "Slow"
        ELSE IF kW(7) <= power_kw[i] /\ power_kw[i] <= kW(22) THEN "Fast"
        ELSE "Rapid"]

\* `t in types` for a list
In(t, types) == \E i \in 1..Len(types) : types[i] = t

\* The mutant of max_charging_type that tests "Fast" before "Rapid".
max_charging_type_fast_first(types) ==
    IF In("Fast", types) THEN "Fast"
    ELSE IF In("Rapid", types) THEN "Rapid"
    ELSE IF In("Slow", types) THEN "Slow"
    ELSE NaN

\* Cloud_Functions_Option_01/main.py:59-66
max_charging_type(types) ==
    IF In("Rapid", types) THEN "Rapid"
    ELSE IF In("Fast", types) THEN "Fast"
    ELSE IF In("Slow", types) THEN "Slow"
    ELSE NaN

\* Cloud_Functions_Option_02/main.py:114-121
max_charging_type_opt02(types) ==
    IF In("Rapid", types) THEN "Rapid"
    ELSE IF In("Fast", types) THEN "Fast"
    ELSE IF In("Slow", types) THEN "Slow"
    ELSE NaN

\* min(x) and max(x) of a non-empty list
ListMin(x) == CHOOSE m \in {x[i] : i \in 1..Len(x)} :
                  \A i \in 1..Len(x) : m <= x[i]

ListMax(x) == CHOOSE m \in {x[i] : i \in 1..Len(x)} :
                  \A i \in 1..Len(x) : x[i] <= m

\* The lists of at most n elements of S.
SeqsUpTo(S, n) == UNION {[1..k -> S] : k \in 0..n}

\* The powers the classifier is run on: 0, 6.99, 7, 7.01, 21.99, 22, 22.01
\* and 50 kW.
ClassifierPowers == {0, 699, kW(7), 701, 2199, kW(22), 2201, kW(50)}

MaxPowers == 3

ClassifyInit ==
    /\ cf_pc = "input"
    /\ cf_powers \in SeqsUpTo(ClassifierPowers, MaxPowers)
    /\ cf_types = <<>>
    /\ cf_site = "none"

\* The four copies of assign_charging_type applied to the same list.
Classify ==
    /\ cf_pc = "input"
    /\ cf_types' = [opt01 |-> assign_charging_type(cf_powers),
                    opt02 |-> assign_charging_type_opt02(cf_powers),
                    gpa |-> assign_charging_type_gpa(cf_powers),
                    ocm |-> assign_charging_type_ocm(cf_powers)]
    /\ cf_pc' = "typed"
    /\ UNCHANGED <<cf_powers, cf_site>>
    /\ UNCHANGED <<sgVars, swVars, clVars, syVars, xVars>>

\* Max_Charging_Type of the tier list, as Option 01 (main.py:251) and
\* Option 02 (main.py:140) compute it.
SiteTier ==
    /\ cf_pc = "typed"
    /\ cf_site' = [opt01 |-> max_charging_type(cf_types.opt01),
                   opt02 |-> max_charging_type_opt02(cf_types.opt02)]
    /\ cf_pc' = "done"
    /\ UNCHANGED <<cf_powers, cf_types>>
    /\ UNCHANGED <<sgVars, swVars, clVars, syVars, xVars>>

NextClassify == Classify \/ SiteTier

InitClassify == ClassifyInit /\ sgIdle /\ swIdle /\ clIdle /\ syIdle /\ xIdle

SpecClassify == InitClassify /\ [][NextClassify]_vars

\* The order Slow < Fast < Rapid of the tiers.
Rank(t) == CASE t = "Slow" -> 1 [] t = "Fast" -> 2 [] t = "Rapid" -> 3
             [] OTHER -> 0

\* The tier of the band p lies in: below 7, from 7 to 22, above 22.
Band(p) == CASE p < kW(7) -> "Slow"
             [] p >= kW(7) /\ p <= kW(22) -> "Fast"
             [] p > kW(22) -> "Rapid"

Copies == {"opt01", "opt02", "gpa", "ocm"}

\* C9: assign_charging_type maps each power of its input, in order and
\* preserving length, to Slow below 7 kW, Fast from 7 to 22 kW (both
\* boundaries included) and Rapid above 22 kW; the mapping is monotonic in
\* the power, and the four copies of the function agree.
C9_TierBands ==
    cf_pc \in {"typed", "done"} =>
        /\ \A c \in Copies :
             /\ Len(cf_types[c]) = Len(cf_powers)
             /\ \A i \in 1..Len(cf_powers) :
                  /\ cf_powers[i] < kW(7) => cf_types[c][i] = "Slow"
                  /\ (cf_powers[i] >= kW(7) /\ cf_powers[i] <= kW(22))
                        => cf_types[c][i] = "Fast"
                  /\ cf_powers[i] > kW(22) => cf_types[c][i] = "Rapid"
             /\ \A i, j \in 1..Len(cf_powers) :
                  cf_powers[i] <= cf_powers[j]
                     => Rank(cf_types[c][i]) <= Rank(cf_types[c][j])
        /\ \A c, d \in Copies : cf_types[c] = cf_types[d]

\* C9 witness: a list holding both boundaries and their neighbours has been
\* classified.
C9_Witness ==
    /\ cf_pc = "typed"
    /\ cf_powers = <<kW(7), kW(22), 2201>>
    /\ cf_types.opt01 = <<"Fast", "Fast", "Rapid">>

\* C10: the site tier is the maximum, in the order Rapid > Fast > Slow, of
\* the connectors' tiers, which is the tier of the largest power; for the
\* empty list it is np.nan, the code's Unknown.
C10_SiteTierIsMax ==
    cf_pc = "done" =>
        \A c \in {"opt01", "opt02"} :
            IF cf_powers = <<>>
            THEN cf_site[c] = NaN
            ELSE /\ cf_site[c] \in {"Slow", "Fast", "Rapid"}
                 /\ \A i \in 1..Len(cf_powers) :
                      Rank(Band(cf_powers[i])) <= Rank(cf_site[c])
                 /\ \E i \in 1..Len(cf_powers) :
                      Band(cf_powers[i]) = cf_site[c]
                 /\ cf_site[c] = Band(ListMax(cf_powers))

\* C10 witness: a site with a Slow, a Rapid and a Fast connector, in an
\* order in which the maximum is not the last, has been rolled up.
C10_Witness ==
    /\ cf_pc = "done"
    /\ cf_powers = <<699, kW(50), kW(22)>>
    /\ cf_site.opt01 = "Rapid"

\* The empty list has been rolled up too, to np.nan.
C10_EmptyListReached == cf_pc = "done" /\ cf_powers = <<>> /\ cf_site.opt02 = NaN

(***************************************************************************)
(* Reconciliation (fetch_ocm_details) and the cleaning step.               *)
(*                                                                         *)
(* A Python string is a sequence of tokens; the token Sep is the           *)
(* substring "; " that str.join puts between the pieces and str.split      *)
(* cuts at.  The token [s |-> "kW", v |-> t] is the rendering "%.1f kW" of *)
(* t tenths of a kW.  An optional value (PowerKW, a NaN cell) is a         *)
(* sequence of length 0 or 1.                                              *)
(***************************************************************************)
Tok(text) == [s |-> text, v |-> 0]

Sep == Tok("; ")

\* A one-token string
Str(text) == <<Tok(text)>>

RECURSIVE Join(_)
\* "; ".join(pieces)
Join(pieces) ==
    IF pieces = <<>> THEN <<>>
    ELSE IF Len(pieces) = 1 THEN pieces[1]
    ELSE pieces[1] \o <<Sep>> \o Join(Tail(pieces))

RECURSIVE Split(_)
\* string.split("; "): the pieces between the separators, at least one
Split(string) ==
    IF \A i \in 1..Len(string) : string[i] # Sep
    THEN <<string>>
    ELSE LET k == CHOOSE i \in 1..Len(string) :
                      /\ string[i] = Sep
                      /\ \A j \in 1..(i - 1) : string[j] # Sep
         IN <<SubSeq(string, 1, k - 1)>>
            \o Split(SubSeq(string, k + 1, Len(string)))

\* f"{float(power_kw):.1f}": p hundredths of a kW rounded to tenths (the
\* powers of the model are never halfway between two tenths).
FormatTenths(p) == (p + 5) \div 10

\* f"{float(power_kw):.1f} kW"
PowerString(p) == <<[s |-> "kW", v |-> FormatTenths(p)]>>

\* `"kW" in p`
ContainsKW(piece) == \E i \in 1..Len(piece) : piece[i].s = "kW"

\* Whether float(p.replace(" kW", "")) succeeds, and its value
CanFloat(piece) == Len(piece) = 1 /\ piece[1].s = "kW"

Float(piece) == piece[1].v * 10

\* The elements of rows at the indices K, in order.
Pick(rows, K) ==
    [n \in 1..Cardinality(K) |->
        rows[CHOOSE i \in K : Cardinality({j \in K : j <= i}) = n]]

\* The connectors of an OCM POI and the outcomes of the OCM lookup.
Titles == {"Type 2", "CCS"}

\* PowerKW readings: 0, 3.7, 22.04 and 50 kW
LookupPowers == {0, 370, 2204, kW(50)}

Connectors == [title : Titles, PowerKW : {<<>>} \cup {<<p>> : p \in LookupPowers}]

MaxConn == 2

Lookups ==
    {[kind |-> "error", conns |-> <<>>], [kind |-> "empty", conns |-> <<>>]}
    \cup [kind : {"poi"}, conns : SeqsUpTo(Connectors, MaxConn)]

\* Option 01 renders a falsy PowerKW (None, 0) as "Power Unknown".
PowerCell_opt01(conn) ==
    IF conn.PowerKW # <<>> /\ conn.PowerKW[1] # 0
    THEN PowerString(conn.PowerKW[1]) ELSE Str("Power Unknown")

\* The extraction script renders only None as "Power Unknown".
PowerCell_gpa(conn) ==
    IF conn.PowerKW # <<>>
    THEN PowerString(conn.PowerKW[1]) ELSE Str("Power Unknown")

\* Cloud_Functions_Option_01/main.py:129-172: the pair (connector types,
\* powers) for a lookup, with the API key configured or not.
fetch_ocm_details(key, lookup) ==
    IF ~key THEN <<Str("Not Available"), Str("Not Available")>>
    ELSE IF lookup.kind = "error"
    THEN <<Str("OCM API Error"), Str("OCM API Error")>>
    ELSE IF lookup.kind = "empty"
    THEN <<Str("No Match Found"), Str("No Match Found")>>
    ELSE IF lookup.conns = <<>>
    THEN <<Str("No Connections Listed"), Str("No Connections Listed")>>
    ELSE <<Join([i \in 1..Len(lookup.conns) |-> Str(lookup.conns[i].title)]),
           Join([i \in 1..Len(lookup.conns) |->
                    PowerCell_opt01(lookup.conns[i])])>>

\* data_extracting_OCM_GPA.py:102-152
fetch_ocm_details_gpa(key, lookup) ==
    IF ~key THEN <<Str("Not Available"), Str("Not Available")>>
    ELSE IF lookup.kind = "error"
    THEN <<Str("OCM API Error"), Str("OCM API Error")>>
    ELSE IF lookup.kind = "empty"
    THEN <<Str("No Match Found"), Str("No Match Found")>>
    ELSE IF lookup.conns = <<>>
    THEN <<Str("No Connections Listed"), Str("No Connections Listed")>>
    ELSE <<Join([i \in 1..Len(lookup.conns) |-> Str(lookup.conns[i].title)]),
           Join([i \in 1..Len(lookup.conns) |->
                    PowerCell_gpa(lookup.conns[i])])>>

\* The record run_extraction / fetch_central_london_verified append for the
\* accepted place `item` (the item's index in the batch is kept in src).
RawRecord(variant, key, item, i) ==
    LET ocm == IF variant = "opt01" THEN fetch_ocm_details(key, item.lookup)
               ELSE fetch_ocm_details_gpa(key, item.lookup)
    IN [place_id |-> item.place_id, name |-> item.name,
        ocm_connector_types |-> ocm[1], ocm_power_kW |-> ocm[2], src |-> i]

\* convert_power of Option 01: the pieces holding "kW", as floats.
convert_power(x) ==
    LET K == {i \in 1..Len(x) : ContainsKW(x[i])}
    IN [n \in 1..Cardinality(K) |-> Float(Pick(x, K)[n])]

\* The derived columns both cleaning steps and extract_connections add,
\* from the connector count and the list of known powers.
Derived(row, count, power_list, types) ==
    [place_id |-> row.place_id, name |-> row.name, src |-> row.src,
     Number_of_Connectors |-> count,
     Max_Charging_Type |-> max_charging_type(types),
     Min_Power_kW |-> IF power_list # <<>> THEN <<ListMin(power_list)>>
                      ELSE <<>>,
     Max_Power_kW |-> IF power_list # <<>> THEN <<ListMax(power_list)>>
                      ELSE <<>>,
     Rapid_Charge_Available |-> IF In("Rapid", types) THEN "Yes" ELSE "No",
     Fast_Charge_Available |-> IF In("Fast", types) THEN "Yes" ELSE "No",
     Slow_Charge_Available |-> IF In("Slow", types) THEN "Yes" ELSE "No"]

\* The columns of a row that drop_duplicates compares (src is bookkeeping
\* of the model, not a column).
Columns(row) == [f \in (DOMAIN row) \ {"src"} |-> row[f]]

\* df.drop_duplicates(subset=["place_id"]): the first row of each place_id.
drop_duplicates_place_id(rows) ==
    Pick(rows, {i \in 1..Len(rows) :
                   \A j \in 1..(i - 1) : rows[j].place_id # rows[i].place_id})

\* df.drop_duplicates(): the first of the rows equal in every column.
drop_duplicates_first(rows) ==
    Pick(rows, {i \in 1..Len(rows) :
                   \A j \in 1..(i - 1) : Columns(rows[j]) # Columns(rows[i])})

\* df.drop_duplicates(keep='last'): the last of the rows equal in every
\* column.
drop_duplicates_last(rows) ==
    Pick(rows, {i \in 1..Len(rows) :
                   \A j \in (i + 1)..Len(rows) :
                       Columns(rows[j]) # Columns(rows[i])})

\* The mutant of the Option 01 filter that forgets "No Match Found".
bad_without_no_match == {Str("No Connections Listed"), Str("OCM API Error")}

\* Cloud_Functions_Option_01/main.py:229
bad == {Str("No Match Found"), Str("No Connections Listed"),
        Str("OCM API Error")}

\* data_cleaning_OCM_GPA.py:36-37
bad_gpa == {Str("No Match Found"), Str("No Connections Listed")}

\* One row of clean_ev_charger_data of Option 01 (main.py:233-260).
CleanRow_opt01(row) ==
    LET connector_list == Split(row.ocm_connector_types)
        power_list == convert_power(Split(row.ocm_power_kW))
    IN Derived(row, Len(connector_list), power_list,
               assign_charging_type(power_list))

\* One row of clean_ev_charger_data of data_cleaning_OCM_GPA.py (40-65);
\* defined when every piece of the power string converts.
RowConverts_gpa(row) ==
    \A i \in 1..Len(Split(row.ocm_power_kW)) :
        CanFloat(Split(row.ocm_power_kW)[i])

CleanRow_gpa(row) ==
    LET connector_list == Split(row.ocm_connector_types)
        pieces == Split(row.ocm_power_kW)
        power_list == [i \in 1..Len(pieces) |-> Float(pieces[i])]
    IN Derived(row, Len(connector_list), power_list,
               assign_charging_type_gpa(power_list))

\* extract_connections of Option 02 (main.py:123-146) on the Connections
\* of the POI `row`; the powers are the PowerKW that are not None.
extract_connections(row) ==
    LET conn_list == row.Connections
        K == {i \in 1..Len(conn_list) : conn_list[i].PowerKW # <<>>}
        powers == [n \in 1..Cardinality(K) |-> Pick(conn_list, K)[n].PowerKW[1]]
        charging_type_list == IF powers # <<>>
                              THEN assign_charging_type_opt02(powers) ELSE <<>>
    IN Derived(row, Len(conn_list), powers, charging_type_list)

\* The rows of a frame that pass the filter on ocm_connector_types.
NotIn(rows, markers) ==
    Pick(rows, {i \in 1..Len(rows) : rows[i].ocm_connector_types \notin markers})

\* df.dropna(subset=[..., "Min_Power_kW", "Max_Power_kW", ...]) of Option 02
\* (main.py:253); the POIs of the model all carry coordinates.
dropna(rows) ==
    Pick(rows, {i \in 1..Len(rows) :
                   rows[i].Min_Power_kW # <<>> /\ rows[i].Max_Power_kW # <<>>})

\* The batches the cleaning step is run on.  A batch is a list of items,
\* each a place (id, name) and the outcome of its OCM lookup; for Option 02
\* an item is a POI of the catalog and the lookup holds its Connections.
PlaceIds == {"p1", "p2"}

Names == {"a", "b"}

SampleLookups ==
    {[kind |-> "error", conns |-> <<>>],
     [kind |-> "empty", conns |-> <<>>],
     [kind |-> "poi", conns |-> <<>>],
     [kind |-> "poi", conns |-> <<[title |-> "CCS", PowerKW |-> <<kW(50)>>]>>],
     [kind |-> "poi", conns |-> <<[title |-> "Type 2", PowerKW |-> <<370>>],
                                  [title |-> "Type 2", PowerKW |-> <<>>]>>]}

MaxBatch == 2

\* One place with any lookup, or a batch of places with the sample lookups.
CleanInputs ==
    {<<[place_id |-> "p1", name |-> "a", lookup |-> l]>> : l \in Lookups}
    \cup SeqsUpTo([place_id : PlaceIds, name : Names, lookup : SampleLookups],
                  MaxBatch)

\* run_extraction and fetch_central_london_verified append one record per
\* place_id (the `seen` set); the catalog returns POIs only, and may return
\* the same ID in two sub-boxes.
CleanInit ==
    /\ cl_pc = "input"
    /\ cl_variant \in {"opt01", "gpa", "opt02"}
    /\ cl_key \in BOOLEAN
    /\ cl_input \in CleanInputs
    /\ cl_variant = "opt02" =>
          /\ cl_key
          /\ \A i \in 1..Len(cl_input) : cl_input[i].lookup.kind = "poi"
    /\ cl_variant # "opt02" =>
          \A i, j \in 1..Len(cl_input) :
              cl_input[i].place_id = cl_input[j].place_id => i = j
    /\ cl_raw = <<>> /\ cl_pre = <<>> /\ cl_post = <<>> /\ cl_out = <<>>

\* The extraction's records for the accepted places (main.py:204-217 of
\* Option 01, data_extracting_OCM_GPA.py:201-216).
Reconcile ==
    /\ cl_pc = "input"
    /\ cl_variant \in {"opt01", "gpa"}
    /\ cl_raw' = [i \in 1..Len(cl_input) |->
                     RawRecord(cl_variant, cl_key, cl_input[i], i)]
    /\ cl_pc' = "extracted"
    /\ UNCHANGED <<cl_variant, cl_key, cl_input, cl_pre, cl_post, cl_out>>
    /\ UNCHANGED <<sgVars, swVars, cfVars, syVars, xVars>>

\* clean_ev_charger_data of Option 01 (main.py:224-278).
CleanOpt01 ==
    /\ cl_pc = "extracted"
    /\ cl_variant = "opt01"
    /\ LET d == drop_duplicates_place_id(cl_raw)
           f == NotIn(d, bad)
       IN /\ cl_pre' = cl_raw
          /\ cl_post' = d
          /\ cl_out' = [i \in 1..Len(f) |-> CleanRow_opt01(f[i])]
    /\ cl_pc' = "cleaned"
    /\ UNCHANGED <<cl_variant, cl_key, cl_input, cl_raw>>
    /\ UNCHANGED <<sgVars, swVars, cfVars, syVars, xVars>>

\* clean_ev_charger_data of data_cleaning_OCM_GPA.py (27-71): float() of a
\* piece that is no "<number> kW" raises ValueError out of the function.
CleanGpa ==
    /\ cl_pc = "extracted"
    /\ cl_variant = "gpa"
    /\ LET d == drop_duplicates_first(cl_raw)
           f == NotIn(d, bad_gpa)
       IN /\ cl_pre' = cl_raw
          /\ cl_post' = d
          /\ IF \A i \in 1..Len(f) : RowConverts_gpa(f[i])
             THEN /\ cl_out' = [i \in 1..Len(f) |-> CleanRow_gpa(f[i])]
                  /\ cl_pc' = "cleaned"
             ELSE /\ cl_out' = <<>>
                  /\ cl_pc' = "raised"
    /\ UNCHANGED <<cl_variant, cl_key, cl_input, cl_raw>>
    /\ UNCHANGED <<sgVars, swVars, cfVars, syVars, xVars>>

\* ocm_extractor, main.py:197-225: the POIs flattened, with the columns of
\* extract_connections.
Flatten ==
    /\ cl_pc = "input"
    /\ cl_variant = "opt02"
    /\ cl_raw' = [i \in 1..Len(cl_input) |->
                     extract_connections(
                         [place_id |-> cl_input[i].place_id,
                          name |-> cl_input[i].name,
                          Connections |-> cl_input[i].lookup.conns,
                          src |-> i])]
    /\ cl_pc' = "extracted"
    /\ UNCHANGED <<cl_variant, cl_key, cl_input, cl_pre, cl_post, cl_out>>
    /\ UNCHANGED <<sgVars, swVars, cfVars, syVars, xVars>>

\* ocm_extractor, main.py:253-268: dropna, then drop_duplicates(keep='last').
FinalCleanOpt02 ==
    /\ cl_pc = "extracted"
    /\ cl_variant = "opt02"
    /\ cl_pre' = dropna(cl_raw)
    /\ cl_post' = drop_duplicates_last(dropna(cl_raw))
    /\ cl_out' = drop_duplicates_last(dropna(cl_raw))
    /\ cl_pc' = "cleaned"
    /\ UNCHANGED <<cl_variant, cl_key, cl_input, cl_raw>>
    /\ UNCHANGED <<sgVars, swVars, cfVars, syVars, xVars>>

NextClean == Reconcile \/ CleanOpt01 \/ CleanGpa \/ Flatten \/ FinalCleanOpt02

InitClean == CleanInit /\ sgIdle /\ swIdle /\ cfIdle /\ syIdle /\ xIdle

SpecClean == InitClean /\ [][NextClean]_vars

\* The last index of the frame with the place_id of row i.
LastWith(rows, i) ==
    CHOOSE j \in 1..Len(rows) :
        /\ rows[j].place_id = rows[i].place_id
        /\ \A k \in (j + 1)..Len(rows) : rows[k].place_id # rows[i].place_id

\* C3: the deduplication step leaves exactly one record per place_id of the
\* batch, and that record is the last one with that place_id in batch order,
\* also when two records share a place_id and differ in other fields.
C3_OnePerPlaceIdLastWins ==
    cl_pc \in {"cleaned", "raised"} =>
        \A i \in 1..Len(cl_pre) :
            /\ Cardinality({k \in 1..Len(cl_post) :
                               cl_post[k].place_id = cl_pre[i].place_id}) = 1
            /\ \E k \in 1..Len(cl_post) :
                  Columns(cl_post[k]) = Columns(cl_pre[LastWith(cl_pre, i)])

\* Whether item i of the batch was reconciled with an empty result set.
NoMatch(i) ==
    /\ cl_variant \in {"opt01", "gpa"}
    /\ cl_key
    /\ cl_input[i].lookup.kind = "empty"

\* C6 as claimed: a location whose lookup returned an empty result set is
\* still in the output of the cleaning step, with tier Unknown (np.nan) and
\* the three availability flags false.
C6_NoMatchKept ==
    cl_pc = "cleaned" =>
        \A i \in 1..Len(cl_input) :
            NoMatch(i) =>
                \E k \in 1..Len(cl_out) :
                    /\ cl_out[k].place_id = cl_input[i].place_id
                    /\ cl_out[k].Max_Charging_Type = NaN
                    /\ cl_out[k].Rapid_Charge_Available = "No"
                    /\ cl_out[k].Fast_Charge_Available = "No"
                    /\ cl_out[k].Slow_Charge_Available = "No"

\* C6 as amended: such a location is in the extraction's records, with the
\* marker "No Match Found", and the cleaning step removes it: no row of the
\* cleaned output has its place_id.
C6_NoMatchDropped ==
    \A i \in 1..Len(cl_input) :
        NoMatch(i) =>
            /\ cl_pc \in {"extracted", "cleaned", "raised"} =>
                  /\ cl_raw[i].place_id = cl_input[i].place_id
                  /\ cl_raw[i].ocm_connector_types = Str("No Match Found")
            /\ cl_pc = "cleaned" =>
                  \A k \in 1..Len(cl_out) :
                      cl_out[k].place_id # cl_input[i].place_id

\* C6 witness: Option 01 has cleaned a batch of an unmatched place and a
\* matched one, and only the matched one is left.
C6_Witness ==
    /\ cl_pc = "cleaned"
    /\ cl_variant = "opt01"
    /\ Len(cl_input) = 2
    /\ NoMatch(1)
    /\ Len(cl_out) = 1
    /\ cl_out[1].src = 2

\* Whether item i has a matched POI with a connector list: always for a POI
\* of the catalog, and for a place when the lookup was made and returned a
\* POI with connectors.
Matched(i) ==
    \/ cl_variant = "opt02"
    \/ /\ cl_key
       /\ cl_input[i].lookup.kind = "poi"
       /\ cl_input[i].lookup.conns # <<>>

\* C7: in every output record Number_of_Connectors is the number of
\* connector entries of the matched POI, with or without a power reading; a
\* record that carries a provenance marker has no positive count.
C7_ConnectorCount ==
    cl_pc = "cleaned" =>
        \A k \in 1..Len(cl_out) :
            LET i == cl_out[k].src IN
            IF Matched(i)
            THEN cl_out[k].Number_of_Connectors = Len(cl_input[i].lookup.conns)
            ELSE cl_out[k].Number_of_Connectors <= 0

\* The power readings of the connectors of item i.
Readings(i) ==
    IF Matched(i)
    THEN {cl_input[i].lookup.conns[n].PowerKW[1] :
             n \in {m \in 1..Len(cl_input[i].lookup.conns) :
                       cl_input[i].lookup.conns[m].PowerKW # <<>>}}
    ELSE {}

\* C8: Min_Power_kW and Max_Power_kW are the minimum and the maximum over
\* exactly the connectors with a power reading; a connector without one
\* ("Power Unknown") is left out and never makes the cleaning step fail;
\* Min <= Max when both are defined, and both are undefined exactly when no
\* connector has a reading.
C8_MinMaxOverReadings ==
    /\ cl_pc = "raised" =>
          \E i \in 1..Len(cl_raw) :
              cl_raw[i].ocm_power_kW \in
                  {Str("Not Available"), Str("OCM API Error")}
    /\ cl_pc = "cleaned" =>
          \A k \in 1..Len(cl_out) :
              LET R == Readings(cl_out[k].src) IN
              IF R = {}
              THEN cl_out[k].Min_Power_kW = <<>> /\ cl_out[k].Max_Power_kW = <<>>
              ELSE /\ cl_out[k].Min_Power_kW # <<>>
                   /\ cl_out[k].Max_Power_kW # <<>>
                   /\ cl_out[k].Min_Power_kW[1] <= cl_out[k].Max_Power_kW[1]
                   /\ cl_out[k].Min_Power_kW[1] \in R
                   /\ cl_out[k].Max_Power_kW[1] \in R
                   /\ \A r \in R : /\ cl_out[k].Min_Power_kW[1] <= r
                                   /\ r <= cl_out[k].Max_Power_kW[1]

(***************************************************************************)
(* The anchor sweeps.                                                      *)
(*   run_extraction  Cloud_Functions_Option_01/main.py:176-220             *)
(*   verified        data_extracting_OCM_GPA.py:155-220                    *)
(*                   (fetch_central_london_verified)                       *)
(*   ocm_extractor   Cloud_Functions_Option_02/main.py:155-190             *)
(*   ocm_script      data_extracting_cleaning_OCM.py:22-57                 *)
(* One action is one HTTP exchange of the sweep and what the code does     *)
(* with it up to the next exchange.  sw_visited (the anchors a request     *)
(* was issued for), sw_failed (the anchors whose fetch failed) and         *)
(* sw_fetched (the place_ids fetch_place_details was called for, in        *)
(* order) record the run for the properties.                               *)
(***************************************************************************)
\* The anchors of the modelled sweep are 1..NumAnchors, in loop order.
NumAnchors == 2

\* The most pages the provider serves for one nearby search.
MaxPages == 2

TwoStage == {"run_extraction", "verified"}

\* The place_ids of the results of one page, or the POI IDs of one sub-box.
PageResults == {<<>>, <<"p1">>, <<"p2">>, <<"p1", "p2">>}

\* The OCM lookups a sweep's reconciliation meets.
SweepLookups ==
    {[kind |-> "empty", conns |-> <<>>],
     [kind |-> "poi", conns |-> <<[title |-> "CCS", PowerKW |-> <<kW(50)>>]>>]}

(***************************************************************************)
(* is_charger_place.  A string is a sequence of one-character strings; a   *)
(* value that may be None (name, formatted_address) is a sequence of       *)
(* length 0 (None) or 1.                                                   *)
(***************************************************************************)
\* str.lower() on one character of the alphabet the model's texts use.
LowerChar(c) ==
    CASE c = "C" -> "c" [] c = "E" -> "e" [] c = "V" -> "v" [] c = "M" -> "m"
      [] c = "R" -> "r" [] c = "T" -> "t" [] c = "S" -> "s" [] c = "H" -> "h"
      [] OTHER -> c

\* text.lower()
Lower(text) == [i \in 1..Len(text) |-> LowerChar(text[i])]

\* `kw in text`: kw is a substring of text.
Contains(text, kw) ==
    \E i \in 1..(Len(text) - Len(kw) + 1) :
        SubSeq(text, i, i + Len(kw) - 1) = kw

\* `value or ""`
OrEmpty(opt) == IF opt = <<>> THEN <<>> ELSE opt[1]

\* t.lower() on a type tag.
LowerTag(t) == IF t = "Charging_Station" THEN "charging_station" ELSE t

\* Cloud_Functions_Option_01/main.py:34-40
CHARGER_KEYWORDS ==
    {<<"c", "h", "a", "r", "g", "e">>,
     <<"c", "h", "a", "r", "g", "i", "n", "g">>,
     <<"e", "v">>,
     <<"e", "v", " ", "c", "h", "a", "r", "g", "e", "r">>,
     <<"e", "v", "-", "c", "h", "a", "r", "g", "e", "r">>,
     <<"p", "o", "d", " ", "p", "o", "i", "n", "t">>,
     <<"b", "p", " ", "p", "u", "l", "s", "e">>,
     <<"t", "e", "s", "l", "a">>,
     <<"s", "u", "p", "e", "r", "c", "h", "a", "r", "g", "e", "r">>,
     <<"i", "n", "s", "t", "a", "v", "o", "l", "t">>,
     <<"c", "h", "a", "r", "g", "e", "p", "o", "i", "n", "t">>,
     <<"r", "a", "p", "i", "d", " ", "c", "h", "a", "r", "g", "e", "r">>,
     <<"s", "h", "e", "l", "l", " ", "r", "e", "c", "h", "a", "r", "g", "e">>,
     <<"i", "o", "n", "i", "t", "y">>,
     <<"m", "e", "r">>,
     <<"o", "c", "t", "o", "p", "u", "s">>}

\* data_extracting_OCM_GPA.py:28-35
CHARGER_KEYWORDS_gpa ==
    {<<"c", "h", "a", "r", "g", "e">>,
     <<"c", "h", "a", "r", "g", "i", "n", "g">>,
     <<"e", "v">>,
     <<"e", "v", "-", "c", "h", "a", "r", "g", "e", "r">>,
     <<"e", "v", " ", "c", "h", "a", "r", "g", "e", "r">>,
     <<"p", "o", "d", " ", "p", "o", "i", "n", "t">>,
     <<"p", "o", "d", "-", "p", "o", "i", "n", "t">>,
     <<"b", "p", " ", "p", "u", "l", "s", "e">>,
     <<"b", "p", "-", "p", "u", "l", "s", "e">>,
     <<"t", "e", "s", "l", "a">>,
     <<"t", "e", "s", "l", "a", " ", "s", "u", "p", "e", "r", "c", "h", "a", "r", "g", "e", "r">>,
     <<"i", "n", "s", "t", "a", "v", "o", "l", "t">>,
     <<"c", "h", "a", "r", "g", "e", "p", "o", "i", "n", "t">>,
     <<"r", "a", "p", "i", "d", " ", "c", "h", "a", "r", "g", "e", "r">>,
     <<"r", "a", "p", "i", "d", " ", "c", "h", "a", "r", "g", "e">>,
     <<"a", "c", " ", "c", "h", "a", "r", "g", "e", "r">>,
     <<"d", "c", " ", "c", "h", "a", "r", "g", "e", "r">>,
     <<"s", "h", "e", "l", "l", " ", "r", "e", "c", "h", "a", "r", "g", "e">>,
     <<"s", "h", "e", "l", "l", "-", "r", "e", "c", "h", "a", "r", "g", "e">>,
     <<"i", "o", "n", "i", "t", "y">>,
     <<"e", "v", "g", "o">>,
     <<"e", "n", "g", "i", "e">>,
     <<"m", "e", "r">>,
     <<"o", "c", "t", "o", "p", "u", "s">>,
     <<"o", "c", "t", "o", "p", "u", "s", " ", "e", "n", "e", "r", "g", "y">>,
     <<"p", "o", "d", "p", "o", "i", "n", "t">>}

Charging == <<"c", "h", "a", "r", "g", "i", "n", "g">>

Ev == <<"e", "v">>

\* Option 01's test with the name compared as it is written.
is_charger_place_case_sensitive(details_json) ==
    IF "electric_vehicle_charging_station" \in details_json.types THEN TRUE
    ELSE IF \E kw \in CHARGER_KEYWORDS :
                Contains(OrEmpty(details_json.name), kw) THEN TRUE
    ELSE IF \/ Contains(Lower(OrEmpty(details_json.formatted_address)), Charging)
            \/ Contains(Lower(OrEmpty(details_json.formatted_address)), Ev)
    THEN TRUE
    ELSE FALSE

\* Cloud_Functions_Option_01/main.py:107-125; details_json is the "result"
\* object of the answer, with nothing in it when the answer has none.
is_charger_place(details_json) ==
    IF "electric_vehicle_charging_station" \in details_json.types THEN TRUE
    ELSE IF \E kw \in CHARGER_KEYWORDS :
                Contains(Lower(OrEmpty(details_json.name)), kw) THEN TRUE
    ELSE IF \/ Contains(Lower(OrEmpty(details_json.formatted_address)), Charging)
            \/ Contains(Lower(OrEmpty(details_json.formatted_address)), Ev)
    THEN TRUE
    ELSE FALSE

\* data_extracting_OCM_GPA.py:39-58
is_charger_place_gpa(details_json) ==
    LET types == {LowerTag(t) : t \in details_json.types} IN
    IF "electric_vehicle_charging_station" \in types
       \/ "charging_station" \in types THEN TRUE
    ELSE IF \E kw \in CHARGER_KEYWORDS_gpa :
                Contains(Lower(OrEmpty(details_json.name)), kw) THEN TRUE
    ELSE IF \/ Contains(Lower(OrEmpty(details_json.formatted_address)), Charging)
            \/ Contains(Lower(OrEmpty(details_json.formatted_address)), Ev)
    THEN TRUE
    ELSE FALSE

\* The Place Details answers the sweeps meet: a tagged station, a place
\* whose name holds a keyword, a place on a street whose name holds "ev",
\* a cafe, and an answer without a result.
DetailsJson ==
    {[types |-> {"electric_vehicle_charging_station"},
      name |-> <<<<"H", "u", "b">>>>, formatted_address |-> <<>>],
     [types |-> {"parking"},
      name |-> <<<<"T", "e", "s", "l", "a">>>>, formatted_address |-> <<>>],
     [types |-> {},
      name |-> <<<<"I", "n", "n">>>>,
      formatted_address |-> <<<<"S", "e", "v", "e", "n">>>>],
     [types |-> {"cafe"},
      name |-> <<<<"C", "a", "f", "e">>>>,
      formatted_address |-> <<<<"H", "i", "g", "h">>>>],
     [types |-> {}, name |-> <<>>, formatted_address |-> <<>>]}

\* An exchange that is a well-formed success.
Success(x) == x.net = "ok" /\ x.status = 200 /\ x.body = "json"

\* requests.get(...).json() of Option 01 (no raise_for_status): raises on a
\* network error and on a body that is not JSON.
JsonRaises(x) == x.net = "error" \/ x.body # "json"

SweepInit ==
    /\ sw_variant \in {"run_extraction", "verified", "ocm_extractor",
                       "ocm_script"}
    /\ sw_pc = "fetch" /\ sw_anchor = 1 /\ sw_retry = 0
    /\ sw_page = 0 /\ sw_all = <<>> /\ sw_pending = <<>> /\ sw_seen = {}
    /\ sw_records = <<>> /\ sw_visited = {} /\ sw_failed = {}
    /\ sw_fetched = <<>>

\* The sweep moves to the anchor after a, or ends after the last one.
GoToAnchorAfter(a) ==
    /\ sw_anchor' = a + 1
    /\ sw_pc' = IF a + 1 > NumAnchors THEN "done" ELSE "fetch"
    /\ sw_retry' = 0 /\ sw_page' = 0 /\ sw_all' = <<>> /\ sw_pending' = <<>>

\* The `for r in results` loop starts on `results`.
StartResults(results) ==
    IF results = <<>>
    THEN GoToAnchorAfter(sw_anchor)
    ELSE /\ sw_pc' = "results" /\ sw_pending' = results
         /\ sw_all' = <<>> /\ sw_page' = 0
         /\ UNCHANGED <<sw_anchor, sw_retry>>

\* An exception leaves the sweep function.
Propagate ==
    /\ sw_pc' = "raised"
    /\ UNCHANGED <<sw_anchor, sw_retry, sw_page, sw_all, sw_pending>>

\* One page of fetch_nearby (Option 01 main.py:70-92; the extraction script
\* 61-85, which also calls raise_for_status and whose caller catches).
NearbyRequest ==
    /\ sw_pc = "fetch"
    /\ sw_variant \in TwoStage
    /\ \E x \in Exchanges, rs \in PageResults, more \in BOOLEAN :
         /\ more => sw_page + 1 < MaxPages
         /\ sw_visited' = sw_visited \cup {sw_anchor}
         /\ IF sw_variant = "run_extraction"
            THEN IF JsonRaises(x)
                 THEN /\ Propagate
                      /\ sw_failed' = sw_failed \cup {sw_anchor}
                 ELSE LET results == IF x.status = 200 THEN rs ELSE <<>>
                          has_token == x.status = 200 /\ more
                      IN /\ sw_failed' = IF x.status # 200 /\ sw_page = 0
                                         THEN sw_failed \cup {sw_anchor}
                                         ELSE sw_failed
                         /\ IF has_token
                            THEN /\ sw_all' = sw_all \o results
                                 /\ sw_page' = sw_page + 1
                                 /\ UNCHANGED <<sw_pc, sw_anchor, sw_retry,
                                                sw_pending>>
                            ELSE StartResults(sw_all \o results)
            ELSE IF ~Success(x)
                 THEN \* except Exception: print, continue
                      /\ GoToAnchorAfter(sw_anchor)
                      /\ sw_failed' = sw_failed \cup {sw_anchor}
                 ELSE /\ UNCHANGED sw_failed
                      /\ IF more
                         THEN /\ sw_all' = sw_all \o rs
                              /\ sw_page' = sw_page + 1
                              /\ UNCHANGED <<sw_pc, sw_anchor, sw_retry,
                                             sw_pending>>
                         ELSE StartResults(sw_all \o rs)
    /\ UNCHANGED <<sw_variant, sw_seen, sw_records, sw_fetched>>
    /\ UNCHANGED <<sgVars, cfVars, clVars, syVars, xVars>>

\* The rest of the results loop after one result is dealt with.
NextResult ==
    IF Tail(sw_pending) = <<>>
    THEN GoToAnchorAfter(sw_anchor)
    ELSE /\ sw_pending' = Tail(sw_pending)
         /\ UNCHANGED <<sw_pc, sw_anchor, sw_retry, sw_page, sw_all>>

\* `if not pid or pid in seen: continue`
SkipSeen ==
    /\ sw_pc = "results"
    /\ Head(sw_pending) \in sw_seen
    /\ NextResult
    /\ UNCHANGED <<sw_variant, sw_seen, sw_records, sw_visited, sw_failed,
                   sw_fetched>>
    /\ UNCHANGED <<sgVars, cfVars, clVars, syVars, xVars>>

\* fetch_place_details for the next result, is_charger_place, the OCM
\* lookup and the record (Option 01 main.py:193-217; the extraction script
\* 181-216, whose details fetch is in a try).
DetailsRequest ==
    /\ sw_pc = "results"
    /\ Head(sw_pending) \notin sw_seen
    /\ \E x \in Exchanges, d \in DetailsJson, lookup \in SweepLookups :
         LET pid == Head(sw_pending)
             raises == IF sw_variant = "run_extraction" THEN JsonRaises(x)
                       ELSE ~Success(x)
             accepted == /\ x.status = 200
                         /\ IF sw_variant = "run_extraction"
                            THEN is_charger_place(d)
                            ELSE is_charger_place_gpa(d)
             ocm == IF sw_variant = "run_extraction"
                    THEN fetch_ocm_details(TRUE, lookup)
                    ELSE fetch_ocm_details_gpa(TRUE, lookup)
         IN IF raises /\ sw_variant = "run_extraction"
            THEN /\ Propagate
                 /\ UNCHANGED <<sw_seen, sw_records>>
            ELSE IF raises \/ ~accepted
            THEN /\ NextResult
                 /\ UNCHANGED <<sw_seen, sw_records>>
            ELSE /\ sw_seen' = sw_seen \cup {pid}
                 /\ sw_records' = Append(sw_records,
                        [place_id |-> pid, anchor |-> sw_anchor,
                         ocm_connector_types |-> ocm[1]])
                 /\ NextResult
    /\ sw_fetched' = Append(sw_fetched, Head(sw_pending))
    /\ UNCHANGED <<sw_variant, sw_visited, sw_failed>>
    /\ UNCHANGED <<sgVars, cfVars, clVars, syVars, xVars>>

\* The POIs of a sub-box as rows of all_poi_data.
Pois(rs, a) ==
    [i \in 1..Len(rs) |->
        [place_id |-> rs[i], anchor |-> a, ocm_connector_types |-> <<>>]]

\* One pass of safe_get's loop for the sub-box of ocm_extractor, and, when
\* safe_get returns, main.py:183-190.
SafeGetRequest ==
    /\ sw_pc = "fetch"
    /\ sw_variant = "ocm_extractor"
    /\ \E x \in Exchanges, rs \in PageResults :
         LET s == SafeGetStep(sw_retry, x) IN
         /\ sw_visited' = sw_visited \cup {sw_anchor}
         /\ CASE s.kind = "raise" ->
                   /\ Propagate
                   /\ sw_failed' = sw_failed \cup {sw_anchor}
                   /\ UNCHANGED sw_records
              [] s.kind = "retry" /\ s.retry < MaxRetries ->
                   /\ sw_retry' = s.retry
                   /\ UNCHANGED <<sw_pc, sw_anchor, sw_page, sw_all,
                                  sw_pending, sw_failed, sw_records>>
              [] s.kind = "retry" /\ ~(s.retry < MaxRetries) ->
                   \* safe_get returned None: "Skipped bounding box"
                   /\ GoToAnchorAfter(sw_anchor)
                   /\ sw_failed' = sw_failed \cup {sw_anchor}
                   /\ UNCHANGED sw_records
              [] s.kind = "return" /\ x.body # "json" ->
                   \* resp.json() raises
                   /\ Propagate
                   /\ sw_failed' = sw_failed \cup {sw_anchor}
                   /\ UNCHANGED sw_records
              [] OTHER ->
                   /\ sw_records' = sw_records \o Pois(rs, sw_anchor)
                   /\ GoToAnchorAfter(sw_anchor)
                   /\ UNCHANGED sw_failed
    /\ UNCHANGED <<sw_variant, sw_seen, sw_fetched>>
    /\ UNCHANGED <<sgVars, cfVars, clVars, syVars, xVars>>

\* One sub-box of the OCM script: get, raise_for_status, json, extend, all
\* in one try (data_extracting_cleaning_OCM.py:44-55).
ScriptRequest ==
    /\ sw_pc = "fetch"
    /\ sw_variant = "ocm_script"
    /\ \E x \in Exchanges, rs \in PageResults :
         /\ sw_visited' = sw_visited \cup {sw_anchor}
         /\ IF Success(x)
            THEN /\ sw_records' = sw_records \o Pois(rs, sw_anchor)
                 /\ UNCHANGED sw_failed
            ELSE /\ sw_failed' = sw_failed \cup {sw_anchor}
                 /\ UNCHANGED sw_records
         /\ GoToAnchorAfter(sw_anchor)
    /\ UNCHANGED <<sw_variant, sw_seen, sw_fetched>>
    /\ UNCHANGED <<sgVars, cfVars, clVars, syVars, xVars>>

NextSweep ==
    NearbyRequest \/ SkipSeen \/ DetailsRequest \/ SafeGetRequest
    \/ ScriptRequest

InitSweep == SweepInit /\ sgIdle /\ cfIdle /\ clIdle /\ syIdle /\ xIdle

SpecSweep == InitSweep /\ [][NextSweep]_vars

\* C2: in every sweep variant a fetch failure at an anchor never propagates
\* an exception out of the sweep; the anchor yields no record, and every
\* remaining anchor is still visited.
C2_FailuresIsolated ==
    /\ sw_pc # "raised"
    /\ \A k \in 1..Len(sw_records) : sw_records[k].anchor \notin sw_failed
    /\ sw_pc = "done" => sw_visited = 1..NumAnchors

(***************************************************************************)
(* load_to_bigquery_incremental (Cloud_Functions_Option_01/main.py:282-314,*)
(* Cloud_Functions_Option_02/main.py:65-99).  The destination is           *)
(* [exists, rows]; a row is its key and a name that stands for the other   *)
(* columns.  sy_table0 is the destination when the run began, sy_prev the  *)
(* batch of the run before, sy_appended the rows this run loaded,          *)
(* sy_queries and sy_jobs the key queries and load jobs it issued.         *)
(***************************************************************************)
SyncRows == [place_id : PlaceIds, name : Names]

\* The most runs of the load in one behaviour.
MaxRuns == 2

\* The batches handed to the load: Option 01's hold a place_id once, Option
\* 02's hold no two rows equal in every column.
SyncBatches(variant) ==
    {b \in SeqsUpTo(SyncRows, MaxBatch) :
        \A i, j \in 1..Len(b) :
            i # j => IF variant = "opt01"
                     THEN b[i].place_id # b[j].place_id
                     ELSE b[i] # b[j]}

\* The destinations a first run can meet: no table, or a table without a
\* repeated key.
InitialTables ==
    {Absent,
     [exists |-> TRUE, rows |-> <<>>],
     [exists |-> TRUE, rows |-> <<[place_id |-> "p1", name |-> "a"]>>],
     [exists |-> TRUE, rows |-> <<[place_id |-> "p1", name |-> "a"],
                                  [place_id |-> "p2", name |-> "b"]>>]}

\* The mutant of the filter that keeps every row.
FilterNew_keep_all(df, ids) == df

\* df[~df["Place_Id"].isin(existing_ids)]
FilterNew(df, ids) ==
    Pick(df, {i \in 1..Len(df) : df[i].place_id \notin ids})

\* The mutant of the load job that replaces the table's rows.
LoadJobRows_truncate(rows, new) == new

\* client.load_table_from_dataframe with WRITE_APPEND (the table exists) or
\* WRITE_EMPTY (it does not, and rows is empty): the rows afterwards.
LoadJobRows(rows, new) == rows \o new

SyncInit ==
    /\ sy_variant \in {"opt01", "opt02"}
    /\ table \in InitialTables
    /\ sy_pc = "idle"
    /\ sy_batch = <<>> /\ table_exists = FALSE /\ existing_ids = {}
    /\ df_new = <<>> /\ sy_result = "none" /\ sy_runs = 0
    /\ sy_table0 = table /\ sy_prev = <<>> /\ sy_appended = <<>>
    /\ sy_queries = 0 /\ sy_jobs = 0

\* load_to_bigquery_incremental(df) is called.
LoadCall ==
    /\ sy_pc \in {"idle", "done"}
    /\ sy_runs < MaxRuns
    /\ \E df \in SyncBatches(sy_variant) :
         /\ sy_batch' = df
         /\ sy_prev' = IF sy_runs = 0 THEN <<>> ELSE <<sy_batch>>
    /\ sy_runs' = sy_runs + 1
    /\ sy_table0' = table
    /\ sy_pc' = "get_table"
    /\ table_exists' = FALSE /\ existing_ids' = {} /\ df_new' = <<>>
    /\ sy_result' = "none" /\ sy_appended' = <<>>
    /\ sy_queries' = 0 /\ sy_jobs' = 0
    /\ UNCHANGED <<sy_variant, table>>
    /\ UNCHANGED <<sgVars, swVars, cfVars, clVars, xVars>>

\* client.get_table: NotFound or not; with no table all rows are new.
GetTable ==
    /\ sy_pc = "get_table"
    /\ table_exists' = table.exists
    /\ IF table.exists
       THEN sy_pc' = "query" /\ UNCHANGED df_new
       ELSE sy_pc' = "load" /\ df_new' = sy_batch
    /\ UNCHANGED <<sy_variant, table, sy_batch, existing_ids, sy_result,
                   sy_runs, sy_table0, sy_prev, sy_appended, sy_queries,
                   sy_jobs>>
    /\ UNCHANGED <<sgVars, swVars, cfVars, clVars, xVars>>

\* The load without the return on an empty df_new.
Empty_never(df) == FALSE

\* df_new.empty
Empty(df) == df = <<>>

\* SELECT Place_Id, the filter, and the return when nothing is new.
QueryExisting ==
    /\ sy_pc = "query"
    /\ LET ids == {table.rows[i].place_id : i \in 1..Len(table.rows)}
           new == FilterNew(sy_batch, ids)
       IN /\ existing_ids' = ids
          /\ df_new' = new
          /\ IF Empty(new)
             THEN /\ sy_pc' = "done"
                  /\ sy_result' = IF sy_variant = "opt01" THEN "No new data"
                                  ELSE "table_id"
             ELSE /\ sy_pc' = "load"
                  /\ UNCHANGED sy_result
    /\ sy_queries' = sy_queries + 1
    /\ UNCHANGED <<sy_variant, table, sy_batch, table_exists, sy_runs,
                   sy_table0, sy_prev, sy_appended, sy_jobs>>
    /\ UNCHANGED <<sgVars, swVars, cfVars, clVars, xVars>>

\* The load job and the return.
LoadJob ==
    /\ sy_pc = "load"
    /\ table' = [exists |-> TRUE, rows |-> LoadJobRows(table.rows, df_new)]
    /\ sy_appended' = df_new
    /\ sy_jobs' = sy_jobs + 1
    /\ sy_result' = IF sy_variant = "opt01" THEN "OK" ELSE "table_id"
    /\ sy_pc' = "done"
    /\ UNCHANGED <<sy_variant, sy_batch, table_exists, existing_ids, df_new,
                   sy_runs, sy_table0, sy_prev, sy_queries>>
    /\ UNCHANGED <<sgVars, swVars, cfVars, clVars, xVars>>

NextSync == LoadCall \/ GetTable \/ QueryExisting \/ LoadJob

InitSync == SyncInit /\ sgIdle /\ swIdle /\ cfIdle /\ clIdle /\ xIdle

SpecSync == InitSync /\ [][NextSync]_vars

\* The keys of the rows of a table
Keys(rows) == {rows[i].place_id : i \in 1..Len(rows)}

\* C4: the load changes the destination only by appending.  With a table,
\* the rows appended are exactly the batch rows whose place_id is not among
\* the keys read from it, read once and before the load, and every row
\* that was there stays as it was; with no table the whole batch is the
\* initial content.
C4_AppendOnly ==
    /\ sy_pc \in {"get_table", "query", "load"} => table = sy_table0
    /\ sy_pc = "load" /\ table_exists =>
          sy_queries = 1 /\ existing_ids = Keys(sy_table0.rows)
    /\ sy_pc = "done" =>
          IF sy_table0.exists
          THEN /\ table.exists
               /\ sy_queries = 1
               /\ SubSeq(table.rows, 1, Len(sy_table0.rows)) = sy_table0.rows
               /\ SubSeq(table.rows, Len(sy_table0.rows) + 1, Len(table.rows))
                     = Pick(sy_batch,
                            {i \in 1..Len(sy_batch) :
                                sy_batch[i].place_id
                                    \notin Keys(sy_table0.rows)})
          ELSE /\ sy_queries = 0
               /\ table = [exists |-> TRUE, rows |-> sy_batch]

\* C4 witness: a run on a table with one row has appended the one new row
\* of a batch of two.
C4_Witness ==
    /\ sy_pc = "done"
    /\ sy_table0 = [exists |-> TRUE,
                    rows |-> <<[place_id |-> "p1", name |-> "a"]>>]
    /\ sy_batch = <<[place_id |-> "p1", name |-> "b"],
                    [place_id |-> "p2", name |-> "a"]>>
    /\ table.rows = <<[place_id |-> "p1", name |-> "a"],
                      [place_id |-> "p2", name |-> "a"]>>

\* C4 witness for the absent table: the whole batch became the table.
C4_CreatedReached ==
    /\ sy_pc = "done" /\ ~sy_table0.exists /\ Len(sy_batch) = 2
    /\ table.rows = sy_batch

\* C5: a run with the batch of the run just before it appends no row and
\* leaves the destination as that run left it, whether the destination was
\* absent or present at first.
C5_SecondRunAppendsNothing ==
    (sy_pc = "done" /\ sy_prev = <<sy_batch>>) =>
        /\ sy_appended = <<>>
        /\ table = sy_table0

\* C5 witness: the destination was absent, the first run wrote a batch of
\* two rows and the second run of the same batch has ended.
C5_Witness ==
    /\ sy_pc = "done"
    /\ sy_runs = 2
    /\ sy_prev = <<sy_batch>>
    /\ Len(sy_batch) = 2
    /\ table = [exists |-> TRUE, rows |-> sy_batch]

\* "Yes" / "No" of an availability column, as a truth value's rendering.
YesNo(b) == IF b THEN "Yes" ELSE "No"

\* C11: in every output record each of Rapid_Charge_Available,
\* Fast_Charge_Available and Slow_Charge_Available is true exactly when at
\* least one connector with a known power falls in that tier, whatever the
\* site maximum is; with no known power all three are false.  The same
\* holds of the rows extract_connections produces before dropna.
C11_AvailabilityFlags ==
    LET Has(i, t) == \E r \in Readings(i) : Band(r) = t
        Right(row) ==
            /\ row.Rapid_Charge_Available = YesNo(Has(row.src, "Rapid"))
            /\ row.Fast_Charge_Available = YesNo(Has(row.src, "Fast"))
            /\ row.Slow_Charge_Available = YesNo(Has(row.src, "Slow"))
    IN /\ cl_pc = "cleaned" =>
             \A k \in 1..Len(cl_out) : Right(cl_out[k])
       /\ (cl_variant = "opt02" /\ cl_pc \in {"extracted", "cleaned"}) =>
             \A k \in 1..Len(cl_raw) : Right(cl_raw[k])

\* The flags of Option 02 alone, where no string stands between the reading
\* and the tier.
C11_Opt02Flags ==
    (cl_variant = "opt02" /\ cl_pc \in {"extracted", "cleaned"}) =>
        \A k \in 1..Len(cl_raw) :
            \A t \in {"Rapid", "Fast", "Slow"} :
                (\E r \in Readings(cl_raw[k].src) : Band(r) = t)
                    <=> cl_raw[k][t \o "_Charge_Available"] = "Yes"

(***************************************************************************)
(* The sub-box loop of ocm_extractor (Cloud_Functions_Option_02/main.py:   *)
(* 157-190) and of data_extracting_cleaning_OCM.py:22-57, which are the    *)
(* same loop.  Coordinates are integers (a unit is a fraction of STEP);    *)
(* tl_boxes lists the sub-boxes queried, in order.                         *)
(***************************************************************************)
\* The largest span of the box in a direction, and the largest step.
MaxSpan == 4

MaxStep == 3

\* The bounding boxes and steps the loop is run on.
TileBoxes ==
    {b \in [MIN_LAT : {0, 1}, MAX_LAT : 1..(1 + MaxSpan),
            MIN_LNG : {-2}, MAX_LNG : (-1)..(-2 + MaxSpan),
            STEP : 1..MaxStep] :
        b.MIN_LAT < b.MAX_LAT /\ b.MAX_LAT - b.MIN_LAT <= MaxSpan}

Min(a, b) == IF a <= b THEN a ELSE b

\* The loop without the clipping of the last row.
max_lat_box_unclipped(v, box) == v + box.STEP

\* max_lat_box = min(lat + STEP, MAX_LAT)
max_lat_box(v, box) == Min(v + box.STEP, box.MAX_LAT)

\* max_lng_box = min(lng + STEP, MAX_LNG)
max_lng_box(v, box) == Min(v + box.STEP, box.MAX_LNG)

TileInit ==
    /\ tl_box \in TileBoxes
    /\ tl_pc = "outer"
    /\ lng = tl_box.MIN_LNG
    /\ lat = tl_box.MIN_LAT
    /\ tl_boxes = <<>>

\* while lng < MAX_LNG: lat = MIN_LAT
OuterTest ==
    /\ tl_pc = "outer"
    /\ IF lng < tl_box.MAX_LNG
       THEN tl_pc' = "inner" /\ lat' = tl_box.MIN_LAT
       ELSE tl_pc' = "done" /\ UNCHANGED lat
    /\ UNCHANGED <<tl_box, lng, tl_boxes>>
    /\ UNCHANGED tlOthers

\* One pass of the inner loop: the sub-box is queried, lat += STEP.
QuerySubBox ==
    /\ tl_pc = "inner"
    /\ lat < tl_box.MAX_LAT
    /\ tl_boxes' = Append(tl_boxes,
                          [min_lat_box |-> lat,
                           max_lat_box |-> max_lat_box(lat, tl_box),
                           min_lng_box |-> lng,
                           max_lng_box |-> max_lng_box(lng, tl_box)])
    /\ lat' = lat + tl_box.STEP
    /\ UNCHANGED <<tl_pc, tl_box, lng>>
    /\ UNCHANGED tlOthers

\* The inner loop ends: lng += STEP
InnerExit ==
    /\ tl_pc = "inner"
    /\ ~(lat < tl_box.MAX_LAT)
    /\ lng' = lng + tl_box.STEP
    /\ tl_pc' = "outer"
    /\ UNCHANGED <<tl_box, lat, tl_boxes>>
    /\ UNCHANGED tlOthers

NextTile == OuterTest \/ QuerySubBox \/ InnerExit

InitTile == TileInit /\ tlOthersIdle

\* The loop is sequential code: a step that can be taken is taken.
SpecTile == InitTile /\ [][NextTile]_vars /\ WF_vars(NextTile)

\* Whether the sub-box holds the unit cell with lower corner (x, y).
HoldsCell(sub, x, y) ==
    /\ sub.min_lat_box <= x /\ x + 1 <= sub.max_lat_box
    /\ sub.min_lng_box <= y /\ y + 1 <= sub.max_lng_box

\* The sub-boxes queried lie in the box and no two share a cell; at the
\* end every cell of the box is in exactly one of them.
TilingSafe ==
    /\ \A k \in 1..Len(tl_boxes) :
          /\ tl_box.MIN_LAT <= tl_boxes[k].min_lat_box
          /\ tl_boxes[k].min_lat_box < tl_boxes[k].max_lat_box
          /\ tl_boxes[k].max_lat_box <= tl_box.MAX_LAT
          /\ tl_box.MIN_LNG <= tl_boxes[k].min_lng_box
          /\ tl_boxes[k].min_lng_box < tl_boxes[k].max_lng_box
          /\ tl_boxes[k].max_lng_box <= tl_box.MAX_LNG
    /\ \A x \in tl_box.MIN_LAT..(tl_box.MAX_LAT - 1) :
          \A y \in tl_box.MIN_LNG..(tl_box.MAX_LNG - 1) :
              LET n == Cardinality({k \in 1..Len(tl_boxes) :
                                       HoldsCell(tl_boxes[k], x, y)})
              IN /\ n <= 1
                 /\ tl_pc = "done" => n = 1

\* C12: for every bounding box and positive step, dividing the span or not,
\* the sub-box sweep terminates and the sub-boxes it queries tile the box:
\* every point of the box is in a sub-box, no two sub-boxes overlap in
\* their interiors, and none extends past MAX_LAT or MAX_LNG.
C12_SweepTilesBox == [](TilingSafe) /\ <>(tl_pc = "done")

\* C12 witness: a sweep has ended whose step divides neither span, so that
\* the last row and the last column were clipped.
C12_Witness ==
    /\ tl_pc = "done"
    /\ tl_box.STEP = 2
    /\ tl_box.MAX_LAT - tl_box.MIN_LAT = 3
    /\ tl_box.MAX_LNG - tl_box.MIN_LNG = 3
    /\ Len(tl_boxes) = 4
    /\ tl_boxes[4].max_lat_box - tl_boxes[4].min_lat_box = 1
    /\ tl_boxes[4].max_lng_box - tl_boxes[4].min_lng_box = 1

(***************************************************************************)
(* The charger test on one candidate: is_charger_place of both copies on   *)
(* a Place Details answer, and the record the sweep appends for it or not  *)
(* (Cloud_Functions_Option_01/main.py:193-217,                             *)
(* data_extracting_OCM_GPA.py:181-216).                                    *)
(***************************************************************************)
\* The longest of the names made of the letters of NameLetters.
MaxNameLen == 3

NameLetters == {"e", "v", "E", "V", "x"}

\* The names of the candidates: every short text over NameLetters and some
\* names of places; None where the answer has no name.
CandidateNames ==
    {<<>>}
    \cup {<<n>> : n \in SeqsUpTo(NameLetters, MaxNameLen)}
    \cup {<<<<"T", "e", "s", "l", "a">>>>,
          <<<<"M", "E", "R">>>>,
          <<<<"S", "o", "m", "e", "r", "s", "e", "t">>>>,
          <<<<"I", "n", "n">>>>,
          <<<<"P", "o", "d", " ", "P", "o", "i", "n", "t">>>>,
          <<<<"B", "P", "-", "P", "u", "l", "s", "e">>>>}

CandidateAddresses ==
    {<<>>,
     <<<<"S", "e", "v", "e", "n">>>>,
     <<<<"H", "i", "g", "h">>>>,
     <<<<"E", "V", " ", "B", "a", "y">>>>,
     <<<<"C", "h", "a", "r", "g", "i", "n", "g">>>>,
     <<<<"C", "H", "A", "R", "G", "I", "N", "G">>>>}

CandidateTypes ==
    {{}, {"cafe"}, {"electric_vehicle_charging_station", "parking"},
     {"charging_station"}, {"Charging_Station"}}

ChargerInit ==
    /\ ch_pc = "fetched"
    /\ ch_details \in [types : CandidateTypes, name : CandidateNames,
                       formatted_address : CandidateAddresses]
    /\ ch_result = [opt01 |-> FALSE, gpa |-> FALSE]
    /\ ch_records = [opt01 |-> <<>>, gpa |-> <<>>]

\* is_charger_place(details) of each copy.
TestCandidate ==
    /\ ch_pc = "fetched"
    /\ ch_result' = [opt01 |-> is_charger_place(ch_details),
                     gpa |-> is_charger_place_gpa(ch_details)]
    /\ ch_pc' = "tested"
    /\ UNCHANGED <<ch_details, ch_records>>
    /\ UNCHANGED chOthers

\* `if not is_charger_place(details): continue`, else records.append(...)
AppendOrSkip ==
    /\ ch_pc = "tested"
    /\ ch_records' = [c \in {"opt01", "gpa"} |->
                         IF ~ch_result[c] THEN ch_records[c]
                         ELSE Append(ch_records[c], ch_details.name)]
    /\ ch_pc' = "looped"
    /\ UNCHANGED <<ch_details, ch_result>>
    /\ UNCHANGED chOthers

NextCharger == TestCandidate \/ AppendOrSkip

InitCharger == ChargerInit /\ chOthersIdle

SpecCharger == InitCharger /\ [][NextCharger]_vars

\* Whether kw occurs in text when the case of the letters is ignored.
OccursIgnoringCase(text, kw) ==
    \E i \in 0..(Len(text) - Len(kw)) :
        \A j \in 1..Len(kw) : LowerChar(text[i + j]) = LowerChar(kw[j])

\* The EV-charging category tags of each copy.
CategoryTags(c) ==
    IF c = "opt01" THEN {"electric_vehicle_charging_station"}
    ELSE {"electric_vehicle_charging_station", "charging_station",
          "Charging_Station"}

C13_RejectedReached ==
    /\ ch_pc = "looped"
    /\ ch_details.types = {"cafe"}
    /\ ch_details.name = <<<<"I", "n", "n">>>>
    /\ ch_details.formatted_address = <<<<"H", "i", "g", "h">>>>
    /\ ch_result = [opt01 |-> FALSE, gpa |-> FALSE]
    /\ ch_records = [opt01 |-> <<>>, gpa |-> <<>>]

(***************************************************************************)
(* One call of fetch_ocm_details (Cloud_Functions_Option_01/main.py:       *)
(* 129-172, data_extracting_OCM_GPA.py:102-152): the key test, the         *)
(* request, the parsing and the except clause.  oc_requests counts the     *)
(* requests issued.                                                        *)
(***************************************************************************)
\* What resp.json() gives when the body is JSON: a list of POIs (empty, or
\* with the first POI's Connections), or a JSON object that is no list.
OcmData ==
    (Lookups \ {[kind |-> "error", conns |-> <<>>]})
    \cup {[kind |-> "object", conns |-> <<>>]}

\* The first exception raised inside the try, or "none".
OcmException(variant, x, data) ==
    IF x.net = "error" THEN "ConnectionError"
    ELSE IF variant = "gpa" /\ x.status >= 400
    THEN "HTTPError"              \* resp.raise_for_status()
    ELSE IF x.body # "json" THEN "JSONDecodeError"
    ELSE IF data.kind = "object" THEN "KeyError"     \* data[0]
    ELSE "none"

\* An except clause that catches the exceptions of requests only.
Caught_requests_only(exc) == exc \in {"ConnectionError", "HTTPError"}

\* `except Exception`
Caught(exc) == TRUE

OcmInit ==
    /\ oc_pc = "called"
    /\ oc_variant \in {"opt01", "gpa"}
    /\ oc_key \in BOOLEAN
    /\ oc_exchange \in Exchanges
    /\ oc_data \in OcmData
    /\ oc_requests = 0
    /\ oc_result = <<>>

\* fetch_ocm_details(lat, lng)
FetchOcmDetails ==
    /\ oc_pc = "called"
    /\ IF ~oc_key
       THEN /\ oc_result' = fetch_ocm_details(FALSE, oc_data)
            /\ oc_pc' = "returned"
            /\ UNCHANGED oc_requests
       ELSE LET exc == OcmException(oc_variant, oc_exchange, oc_data)
                lookup == IF exc # "none"
                          THEN [kind |-> "error", conns |-> <<>>]
                          ELSE oc_data
            IN /\ oc_requests' = oc_requests + 1
               /\ IF exc # "none" /\ ~Caught(exc)
                  THEN oc_pc' = "raised" /\ UNCHANGED oc_result
                  ELSE /\ oc_pc' = "returned"
                       /\ oc_result' =
                             IF oc_variant = "opt01"
                             THEN fetch_ocm_details(TRUE, lookup)
                             ELSE fetch_ocm_details_gpa(TRUE, lookup)
    /\ UNCHANGED <<oc_variant, oc_key, oc_exchange, oc_data>>
    /\ UNCHANGED ocOthers

NextOcm == FetchOcmDetails

InitOcm == OcmInit /\ ocOthersIdle

SpecOcm == InitOcm /\ [][NextOcm]_vars

\* Both strings of the result are the marker.
Marker(text) == oc_result = <<Str(text), Str(text)>>

\* Whether the request was answered with a body that parses: Option 01
\* does not look at the status, the extraction script raises on an error
\* status.
OcmAnswered ==
    /\ oc_exchange.net = "ok"
    /\ oc_exchange.body = "json"
    /\ oc_variant = "gpa" => oc_exchange.status < 400

\* C14: fetch_ocm_details always returns and never raises.  Without an API
\* key it returns "Not Available" and issues no request; on an empty
\* result set "No Match Found"; on a first result without connectors "No
\* Connections Listed"; on an exception in the fetch or the parsing "OCM
\* API Error"; and only on a first result with connectors the connector
\* types and the powers, one entry per connector, in order.
C14_FetchOcmDetailsTotal ==
    /\ oc_pc # "raised"
    /\ oc_pc = "returned" =>
          /\ Len(oc_result) = 2
          /\ ~oc_key => Marker("Not Available") /\ oc_requests = 0
          /\ oc_key => oc_requests = 1
          /\ (oc_key /\ OcmAnswered /\ oc_data.kind = "empty")
                => Marker("No Match Found")
          /\ (oc_key /\ OcmAnswered /\ oc_data.kind = "poi"
                 /\ oc_data.conns = <<>>)
                => Marker("No Connections Listed")
          /\ (oc_key /\ (~OcmAnswered \/ oc_data.kind = "object"))
                => Marker("OCM API Error")
          /\ (~Marker("Not Available") /\ ~Marker("No Match Found")
                 /\ ~Marker("No Connections Listed") /\ ~Marker("OCM API Error"))
                => /\ oc_key /\ OcmAnswered
                   /\ oc_data.kind = "poi" /\ oc_data.conns # <<>>
                   /\ Len(Split(oc_result[1])) = Len(oc_data.conns)
                   /\ Len(Split(oc_result[2])) = Len(oc_data.conns)
                   /\ \A i \in 1..Len(oc_data.conns) :
                        /\ Split(oc_result[1])[i] = Str(oc_data.conns[i].title)
                        /\ oc_data.conns[i].PowerKW = <<>>
                              => Split(oc_result[2])[i] = Str("Power Unknown")
                        /\ Split(oc_result[2])[i] # Str("Power Unknown")
                              => /\ oc_data.conns[i].PowerKW # <<>>
                                 /\ Split(oc_result[2])[i] =
                                       PowerString(oc_data.conns[i].PowerKW[1])

\* C14 witness: with the key set, a first result with two connectors gave
\* their types and powers, ...
C14_Witness ==
    /\ oc_pc = "returned"
    /\ oc_key
    /\ oc_requests = 1
    /\ oc_data.kind = "poi"
    /\ Len(oc_data.conns) = 2
    /\ oc_result = <<Join(<<Str("CCS"), Str("Type 2")>>),
                     Join(<<PowerString(kW(50)), Str("Power Unknown")>>)>>

\* ... a body that does not parse gave "OCM API Error", ...
C14_ErrorReached ==
    /\ oc_pc = "returned" /\ oc_key /\ oc_exchange.body = "garbage"
    /\ Marker("OCM API Error")

\* ... and without the key no request was issued.
C14_NoKeyReached ==
    oc_pc = "returned" /\ ~oc_key /\ oc_requests = 0 /\ Marker("Not Available")

(***************************************************************************)
(* One invocation of a cloud function:                                     *)
(*   opt01  ev_etl / run_etl, Cloud_Functions_Option_01/main.py:318-348    *)
(*   opt02  ocm_extractor, Cloud_Functions_Option_02/main.py:150-281       *)
(* rn_fetches counts the requests issued to the providers, rn_records the  *)
(* records extracted, rn_writes lists the sinks written ("csv", "bq"),     *)
(* rn_status is the HTTP status of the invocation (0 while it runs).       *)
(***************************************************************************)
\* The most requests of one modelled invocation.
MaxFetches == 3

RunInit ==
    /\ rn_variant \in {"opt01", "opt02"}
    /\ rn_google_key \in BOOLEAN
    /\ rn_ocm_key \in BOOLEAN
    /\ rn_pc = "invoked"
    /\ rn_fetches = 0 /\ rn_records = 0 /\ rn_writes = <<>> /\ rn_status = 0

\* The invocation ends with the status.
EndWith(status) == rn_pc' = "ended" /\ rn_status' = status

\* ocm_extractor starts with `if not OCM_API_KEY: return (..., 500)`;
\* ev_etl calls run_etl, which calls run_extraction, with no test.
Invoke ==
    /\ rn_pc = "invoked"
    /\ IF rn_variant = "opt02" /\ ~rn_ocm_key
       THEN EndWith(500)
       ELSE rn_pc' = "extract" /\ UNCHANGED rn_status
    /\ UNCHANGED <<rn_variant, rn_google_key, rn_ocm_key, rn_fetches,
                   rn_records, rn_writes>>
    /\ UNCHANGED rnOthers

\* One request of the sweep and what comes of it: a record, nothing, or an
\* exception that leaves the sweep (caught by ev_etl, or by the framework).
\* Without GOOGLE_API_KEY the Places API answers REQUEST_DENIED, which has
\* no results.
Fetch ==
    /\ rn_pc = "extract"
    /\ rn_fetches < MaxFetches
    /\ \E outcome \in {"record", "nothing", "raise"} :
         /\ (rn_variant = "opt01" /\ ~rn_google_key) => outcome # "record"
         /\ rn_fetches' = rn_fetches + 1
         /\ IF outcome = "raise"
            THEN EndWith(500) /\ UNCHANGED rn_records
            ELSE /\ rn_records' = IF outcome = "record" THEN rn_records + 1
                                  ELSE rn_records
                 /\ UNCHANGED <<rn_pc, rn_status>>
    /\ UNCHANGED <<rn_variant, rn_google_key, rn_ocm_key, rn_writes>>
    /\ UNCHANGED rnOthers

\* The sweep is over: `if df_raw.empty: return "No data extracted"` (200)
\* in run_etl, `if not all_poi_data: return (..., 500)` in ocm_extractor,
\* else the cleaning.
EndExtraction ==
    /\ rn_pc = "extract"
    /\ rn_fetches >= 1
    /\ IF rn_records = 0
       THEN EndWith(IF rn_variant = "opt01" THEN 200 ELSE 500)
       ELSE rn_pc' = "upload" /\ UNCHANGED rn_status
    /\ UNCHANGED <<rn_variant, rn_google_key, rn_ocm_key, rn_fetches,
                   rn_records, rn_writes>>
    /\ UNCHANGED rnOthers

\* blob.upload_from_string(df.to_csv(index=False)): done, or an exception
\* of the storage client.
UploadCsv ==
    /\ rn_pc = "upload"
    /\ \E ok \in BOOLEAN :
         IF ok
         THEN /\ rn_writes' = Append(rn_writes, "csv")
              /\ rn_pc' = "load"
              /\ UNCHANGED rn_status
         ELSE EndWith(500) /\ UNCHANGED rn_writes
    /\ UNCHANGED <<rn_variant, rn_google_key, rn_ocm_key, rn_fetches,
                   rn_records>>
    /\ UNCHANGED rnOthers

\* load_to_bigquery_incremental(df): rows loaded, nothing new, or an
\* exception of the BigQuery client.
LoadBigQuery ==
    /\ rn_pc = "load"
    /\ \E outcome \in {"loaded", "no new data", "raise"} :
         /\ rn_writes' = IF outcome = "loaded" THEN Append(rn_writes, "bq")
                         ELSE rn_writes
         /\ EndWith(IF outcome = "raise" THEN 500 ELSE 200)
    /\ UNCHANGED <<rn_variant, rn_google_key, rn_ocm_key, rn_fetches,
                   rn_records>>
    /\ UNCHANGED rnOthers

NextRun == Invoke \/ Fetch \/ EndExtraction \/ UploadCsv \/ LoadBigQuery

InitRun == RunInit /\ rnOthersIdle

SpecRun == InitRun /\ [][NextRun]_vars

\* A credential the variant needs is missing.
CredentialMissing ==
    \/ ~rn_ocm_key
    \/ rn_variant = "opt01" /\ ~rn_google_key

\* C15: with a required credential missing the invocation fails as a whole
\* before any fetch is issued and before any sink write; and no run that
\* ends in failure has written to a sink.
C15_FailsBeforeFetchAndWrite ==
    /\ CredentialMissing =>
          /\ rn_fetches = 0
          /\ rn_writes = <<>>
          /\ rn_pc = "ended" => rn_status = 500
    /\ (rn_pc = "ended" /\ rn_status = 500) => rn_writes = <<>>

\* The part of C15 that ocm_extractor keeps: without OCM_API_KEY it ends
\* in 500 with no fetch and no write.
C15_Opt02KeyTest ==
    (rn_variant = "opt02" /\ ~rn_ocm_key) =>
        /\ rn_fetches = 0
        /\ rn_writes = <<>>
        /\ rn_pc = "ended" => rn_status = 500

\* C16: across a whole sweep of the verified-place adapter,
\* fetch_place_details is issued at most once per place identifier: an
\* identifier that comes back in a later page or at a later anchor,
\* accepted or rejected before, is not fetched again.
C16_DetailsFetchedOnce ==
    \A i, j \in 1..Len(sw_fetched) : sw_fetched[i] = sw_fetched[j] => i = j

\* The part of C16 that the `seen` set gives: an identifier that was
\* accepted, and so is in `seen`, is not fetched again.
C16_SeenNotFetchedAgain ==
    [][sw_fetched' # sw_fetched =>
          sw_fetched'[Len(sw_fetched')] \notin sw_seen]_vars

\* C17: after any sequence of sync runs that starts from an absent or a
\* duplicate-free destination, no place_id is in more than one row of the
\* destination table.
C17_NoDuplicateKeys ==
    \A i, j \in 1..Len(table.rows) :
        table.rows[i].place_id = table.rows[j].place_id => i = j

\* C17 for the batches of Option 01, which hold a place_id once.
C17_Opt01NoDuplicateKeys == sy_variant = "opt01" => C17_NoDuplicateKeys

(***************************************************************************)
(* One call of fetch_nearby (Cloud_Functions_Option_01/main.py:70-92,      *)
(* data_extracting_OCM_GPA.py:61-85).  A token that may be missing is a    *)
(* sequence of length 0 or 1.  nb_requests lists the requests issued       *)
(* (the pagetoken parameter and the time slept before, in tenths of a      *)
(* second), nb_responses the answers parsed (results, next_page_token).    *)
(***************************************************************************)
\* The most pages the provider serves in the modelled call.
MaxNearbyPages == 3

\* next_page_token of an answer: missing, the empty string, or a token.
PageTokens == {<<>>, <<"">>, <<"t1">>, <<"t2">>}

\* `if pagetoken:` / `if not pagetoken:`
Truthy(token) == token # <<>> /\ token[1] # ""

\* The argument of time.sleep before a later page, in tenths of a second:
\* time.sleep(2) in Option 01, time.sleep(2.2) in the extraction script.
InterPageDelay(variant) == IF variant = "opt01" THEN 20 ELSE 22

\* The loop without the sleep.
PageDelay_none(token, variant) == 0

\* The time slept before a request with the loop's pagetoken.
PageDelay(token, variant) ==
    IF Truthy(token) THEN InterPageDelay(variant) ELSE 0

NearbyInit ==
    /\ nb_variant \in {"opt01", "gpa"}
    /\ nb_pc = "loop"
    /\ pagetoken = <<>>
    /\ all_results = <<>>
    /\ nb_requests = <<>>
    /\ nb_responses = <<>>

\* One pass of `while True`: the parameters, the sleep, the request, and
\* the answer's results and token.
NearbyPass ==
    /\ nb_pc = "loop"
    /\ \E x \in Exchanges, rs \in PageResults, token \in PageTokens :
         LET raises == IF nb_variant = "opt01" THEN JsonRaises(x)
                       ELSE ~Success(x)
             answered == x.status = 200
             results == IF answered THEN rs ELSE <<>>
             next_page_token == IF answered THEN token ELSE <<>>
         IN /\ Truthy(token) => Len(nb_responses) + 1 < MaxNearbyPages
            /\ nb_requests' =
                  Append(nb_requests,
                         [pagetoken |-> IF Truthy(pagetoken) THEN pagetoken
                                        ELSE <<>>,
                          slept |-> PageDelay(pagetoken, nb_variant)])
            /\ IF raises
               THEN /\ nb_pc' = "raised"
                    /\ UNCHANGED <<pagetoken, all_results, nb_responses>>
               ELSE /\ all_results' = all_results \o results
                    /\ pagetoken' = next_page_token
                    /\ nb_responses' =
                          Append(nb_responses,
                                 [results |-> results,
                                  next_page_token |-> next_page_token])
                    /\ nb_pc' = IF ~Truthy(next_page_token) THEN "returned"
                                ELSE "loop"
    /\ UNCHANGED nb_variant
    /\ UNCHANGED nbOthers

NextNearby == NearbyPass

InitNearby == NearbyInit /\ nbOthersIdle

SpecNearby == InitNearby /\ [][NextNearby]_vars

RECURSIVE ConcatPages(_)
\* The results of the pages, one after the other.
ConcatPages(responses) ==
    IF responses = <<>> THEN <<>>
    ELSE responses[1].results \o ConcatPages(Tail(responses))

\* C18: fetch_nearby follows the continuation token.  The first request
\* carries no token; every later request carries the token of the answer
\* just before it and is issued after the fixed inter-page delay; the loop
\* stops at the first answer without a token, not before and not after;
\* and the list returned is the results of the pages fetched, in page
\* order.
C18_FollowsContinuationToken ==
    /\ \A k \in 1..Len(nb_requests) :
          IF k = 1
          THEN nb_requests[k].pagetoken = <<>> /\ nb_requests[k].slept = 0
          ELSE /\ nb_requests[k].pagetoken = nb_responses[k - 1].next_page_token
               /\ nb_requests[k].pagetoken \in {<<"t1">>, <<"t2">>}
               /\ nb_requests[k].slept = InterPageDelay(nb_variant)
    /\ \A k \in 1..(Len(nb_responses) - 1) :
          nb_responses[k].next_page_token \in {<<"t1">>, <<"t2">>}
    /\ (nb_pc = "loop" /\ nb_responses # <<>>) =>
          nb_responses[Len(nb_responses)].next_page_token
              \in {<<"t1">>, <<"t2">>}
    /\ nb_pc = "returned" =>
          /\ Len(nb_requests) = Len(nb_responses)
          /\ nb_responses[Len(nb_responses)].next_page_token
                \in {<<>>, <<"">>}
          /\ all_results = ConcatPages(nb_responses)

\* C18 witness: a call has returned after three pages, the second and the
\* third asked for with the tokens of the first and the second.
C18_Witness ==
    /\ nb_pc = "returned"
    /\ Len(nb_requests) = 3
    /\ nb_responses[1].next_page_token = <<"t1">>
    /\ nb_responses[2].next_page_token = <<"t2">>
    /\ nb_requests[2].pagetoken = <<"t1">>
    /\ nb_requests[3].pagetoken = <<"t2">>
    /\ all_results = <<"p1", "p2", "p1", "p2">>

\* C19: when the destination table exists and every place_id of the batch
\* is already in it, load_to_bigquery_incremental issues no load job,
\* leaves the destination as it was and returns its normal result: "No new
\* data" in Option 01, the table id in Option 02.
C19_NothingNewIsSuccess ==
    (/\ sy_pc = "done"
     /\ sy_table0.exists
     /\ \A i \in 1..Len(sy_batch) :
           sy_batch[i].place_id \in Keys(sy_table0.rows)) =>
        /\ sy_jobs = 0
        /\ table = sy_table0
        /\ sy_result = IF sy_variant = "opt01" THEN "No new data"
                       ELSE "table_id"

\* C19 witness: Option 01 was run on a table of two rows with a batch of
\* those two keys and other contents, and returned "No new data".
C19_Witness ==
    /\ sy_pc = "done"
    /\ sy_variant = "opt01"
    /\ sy_table0 = [exists |-> TRUE,
                    rows |-> <<[place_id |-> "p1", name |-> "a"],
                               [place_id |-> "p2", name |-> "b"]>>]
    /\ sy_batch = <<[place_id |-> "p2", name |-> "a"],
                    [place_id |-> "p1", name |-> "b"]>>
    /\ sy_jobs = 0
    /\ sy_result = "No new data"

====
